
---- MODULE Spec2Model ----
(***************************************************************************)
(* Leak tester: the TestRunner sequencer (services/test_runner.py), the    *)
(* relay, valve and cylinder controllers it drives, and the MainUI start   *)
(* button that launches it.                                                *)
(*                                                                         *)
(* Units.  Time is counted in ticks of 0.1 s; "elapsed" is the value of    *)
(* time.time() - <phase start>.  Pressures are whole PSI.  A leak rate is  *)
(* a fraction <<num, den>> in PSI/s with den > 0.                          *)
(*                                                                         *)
(* Faults.  A relay command fails when the GPIO call raises inside         *)
(* RelayController.set_state, which then returns False and leaves the      *)
(* tracked state alone; every step draws the set f of relays whose         *)
(* commands fail during that step.  A pressure read yields a value or      *)
(* raises (RAISE).                                                         *)
(***************************************************************************)
EXTENDS Integers, Sequences, FiniteSets, TLC

VARIABLES
    env,             \* the collaborators: relays whose commands can fail, outcomes of a
                     \* pressure read, whether a phase_callback was given, enable_logging
    config,          \* TestRunner.config (TestConfig), fixed at construction
    current_phase,   \* TestRunner.current_phase
    test_result,     \* TestRunner.test_result
    is_testing,      \* TestRunner.is_testing
    test_data,       \* TestRunner.test_data
    relay_states,    \* RelayController.relay_states
    cyl_state,       \* Cylinders._current_state
    ui_is_testing,   \* MainUI.is_testing
    pc,              \* position of each thread inside run_test
    readings,        \* local pressure_readings of _phase_test, per thread
    elapsed,         \* time.time() - stabilize_start / test_start_time, per thread
    phase_trace,     \* current phase at run start, then every phase handed to phase_callback
    fault,           \* kind of the first fault of the current run
    result_writes,   \* assignments to test_result since the run-start reset
    stop_when,       \* whether _emergency_stop was performed during the current run:
                     \* "none", "before_verdict" or "after_verdict"
    stop_in_hold,    \* ... and it was invoked while the run was inside a time.sleep hold
    hold_ran_out,    \* a hold that was interrupted by a stop still ran to its end
    commands,        \* how often the current run called each actuator operation
    cleanup_failed,  \* _phase_exhaust or _phase_retract_cylinders returned False in this run
    error_events,    \* DataLogger.log_system_event('ERROR', ...) was called in this run
    breach,          \* the phase in which _log_pressure first handed the data logger a
                     \* pressure above max_pressure in this run, or "none"
    calibration_points,  \* PressureCalibration.calibration_points, in the order added:
                         \* a sequence of <<current_ma, pressure_psi>>
    cal_input,       \* the current last given to current_to_pressure
    cal_output,      \* what it returned, a fraction <<num, den>> with den > 0
    transducer,      \* min_current_ma, max_current_ma, min_pressure_psi, max_pressure_psi
                     \* of the PressureCalibration object
    test_phase_data, \* MainUI.test_phase_data: the <<elapsed s, pressure>> samples of the
                     \* Testing phase, in the order appended
    pressure_decay,  \* <<>>, or <<slope>> returned by _calculate_pressure_decay for the
                     \* present samples, slope a fraction <<num, den>> in PSI/s
    leak_rate_sccm,  \* <<>>, or <<rate>> returned by _calculate_leak_rate for that slope
    test_volume_cc,  \* MainUI.test_volume_cc
    fill_warning,    \* DataLogger.log_system_event('WARNING', ... 'Fill pressure low')
                     \* was called in this run
    logged,          \* the results handed to DataLogger.log_test_result in this run
    callback_raised, \* a phase_callback call of this run raised an exception
    stop_issued,     \* the relays that the _emergency_stop of run_test's except branch
                     \* commanded off in this run
    stop_failed,     \* ... and those of its off commands that failed
    valve_on,        \* ValveController (src/test.py): the solenoid of each valve is
                     \* energized (its active-low pin is LOW)
    valve_timer,     \* ValveController.extend_timer / retract_timer: the number of a
                     \* Timer, or NoTimer for None
    timers,          \* every threading.Timer created so far: the valve it switches
                     \* off and how far its thread has come
    activation,      \* per valve, the Timer started by the call that last switched it
                     \* on, or NoTimer
    gpio_ready       \* the input loop of main() is running (cleanup() not yet called)

vars == <<env, config, current_phase, test_result, is_testing, test_data, relay_states,
          cyl_state, ui_is_testing, pc, readings, elapsed, phase_trace, fault,
          result_writes, stop_when, stop_in_hold, hold_ran_out, commands,
          cleanup_failed, error_events, breach, calibration_points, cal_input,
          cal_output, transducer, test_phase_data, pressure_decay, leak_rate_sccm,
          test_volume_cc, fill_warning, logged, callback_raised, stop_issued,
          stop_failed, valve_on, valve_timer, timers, activation, gpio_ready>>

\* the PressureCalibration object
cal == <<calibration_points, cal_input, cal_output, transducer>>

\* the leak analysis of the front end
analysis == <<test_phase_data, pressure_decay, leak_rate_sccm, test_volume_cc>>

\* what the run leaves for whoever looks at it afterwards
obs == <<commands, cleanup_failed, error_events, breach>>

\* ... and what the run did on the way, for the properties about its logging, its
\* callback and its emergency stop
notes == <<fill_warning, logged, callback_raised, stop_issued, stop_failed>>

\* the ValveController of src/test.py
valve == <<valve_on, valve_timer, timers, activation, gpio_ready>>

----------------------------------------------------------------------------
(* Bounds *)

MaxP == 2
MaxJitter == 1
MaxCurrent == 3
MaxPoints == 3
MaxTime == 3
MaxSamples == 3
MaxTimers == 4

----------------------------------------------------------------------------
(* Program constants, in ticks *)

TicksPerSecond == 10
StabilizeSleep == 20
TestSleep == 10
CheckReadTime == 2
SampleReadTime == 2
LogReadTime == 1

Relays == {"fill", "exhaust", "extend", "retract"}

\* the actuator operations run_test calls: cylinders.extend, solenoid_valves.fill,
\* solenoid_valves.close_all_valves, solenoid_valves.exhaust, cylinders.retract
Operations == {"extend", "fill", "close_all", "exhaust", "retract"}

\* the thread MainUI.on_start_test starts, and a second caller of run_test
Worker == "worker"
Caller == "caller"
Threads == {Worker, Caller}

RAISE == -1
Pressures == 0..MaxP
Reads == Pressures \cup {RAISE}

PhaseOrder == <<"Ready", "Extending cylinders", "Filling DUT", "Stabilizing",
                "Isolating", "Testing", "Evaluating", "Exhausting",
                "Retracting cylinders", "Complete", "Error">>

Results == {"NONE", "PASS", "FAIL", "ERROR"}

\* TestConfig values the runner is constructed with (durations in ticks); TestConfig
\* accepts any value, a test_duration of 0 included
Configs ==
    { [test_duration |-> d[1], stabilize_time |-> d[2], max_leak_rate |-> d[3],
       max_pressure |-> 1, target_fill_pressure |-> 1, pressure_tolerance |-> 0] :
      d \in { <<0, 0, <<1, 10>>>>, <<10, 30, <<1, 10>>>>, <<20, 30, <<5, 8>>>> } }

\* ConfigManager.validate_config, for the parameters the runner is given: it
\* reports an error when max_leak_rate or a timing parameter is not positive
ValidateConfigErrors(cfg) ==
    \/ cfg.max_leak_rate[1] <= 0
    \/ cfg.stabilize_time <= 0
    \/ cfg.test_duration <= 0

EmptyTestData == [pressure_readings |-> <<>>, evaluated |-> FALSE,
                  start_pressure |-> 0, end_pressure |-> 0,
                  pressure_drop |-> 0, leak_rate |-> <<0, 1>>]

----------------------------------------------------------------------------
(* RelayController *)

\* set_state(id, state): the tracked state changes only when the command succeeds
RelaySet(rs, id, state, f) == IF id \in f THEN rs ELSE [rs EXCEPT ![id] = state]

\* mutant of RelayOk: set_state reports success although the command failed
RelayOk_Always(id, f) == TRUE

\* the value set_state returns
RelayOk(id, f) == id \notin f

\* turn_off_all(): set_state(r, False) for every relay
TurnOffAll(rs, f) == [r \in Relays |-> IF r \in f THEN rs[r] ELSE FALSE]

----------------------------------------------------------------------------
(* SolenoidValves *)

\* stop_fill() then stop_exhaust()
CloseAllValves(rs, f) == RelaySet(RelaySet(rs, "fill", FALSE, f), "exhaust", FALSE, f)

CloseAllValvesOk(f) == RelayOk("fill", f) /\ RelayOk("exhaust", f)

----------------------------------------------------------------------------
(* Cylinders *)

\* _ensure_safe_state(): both solenoids off, the results are ignored
EnsureSafeState(rs, f) == RelaySet(RelaySet(rs, "extend", FALSE, f), "retract", FALSE, f)

\* stop(): relay part
CylindersStopRelays(rs, f) == EnsureSafeState(rs, f)

\* stop(): the state it leaves in _current_state
CylindersStopState(f) ==
    IF RelayOk("extend", f) /\ RelayOk("retract", f) THEN "stopped" ELSE "unknown"

----------------------------------------------------------------------------
(* TestRunner helpers *)

PhaseIndex(p) == CHOOSE i \in 1..Len(PhaseOrder) : PhaseOrder[i] = p

\* _set_phase: the callback, if one was given, is invoked only when the phase changes
SetPhaseTrace(trace, cur, phase, callback) ==
    IF cur # phase /\ callback THEN Append(trace, phase) ELSE trace

\* _log_pressure: the value it returns (0.0 when the read raises)
LogPressure(rd) == IF rd = RAISE THEN 0 ELSE rd

\* mutant of CheckSafetyLimits: a read that raises is replaced by 0.0, as
\* _log_pressure does, and the check goes on with that value
CheckSafetyLimits_Substituted(rd, cfg) == ~(LogPressure(rd) > cfg.max_pressure)

\* _check_safety_limits: False when the read raises or exceeds max_pressure
CheckSafetyLimits(rd, cfg) == rd # RAISE /\ ~(rd > cfg.max_pressure)

\* the set_state(r, False) calls of _emergency_stop, in order: close_all_valves,
\* cylinders.stop, turn_off_all
StopCommands == <<"fill", "exhaust", "extend", "retract",
                  "fill", "exhaust", "extend", "retract">>

\* mutant of StopGoesOn: a failed off command ends the emergency stop
StopGoesOn_UnlessFailed(r, f) == r \notin f

\* after the off command to r the emergency stop goes on to the next one: set_state
\* catches the error and returns False, and nobody looks at the value
StopGoesOn(r, f) == TRUE

\* the relays _emergency_stop gets to command off: those of the commands that every
\* earlier command lets it reach
StopIssued(f) ==
    {StopCommands[i] : i \in {j \in 1..Len(StopCommands) :
                                 \A h \in 1..(j - 1) : StopGoesOn(StopCommands[h], f)}}

\* mutant of EmergencyStop: the cylinders are not stopped
EmergencyStop_NoCylinders(act, f) ==
    [relays |-> TurnOffAll(CloseAllValves(act.relays, f), f),
     cyl    |-> act.cyl]

\* _emergency_stop on the actuator state [relays, cyl]
EmergencyStop(act, f) ==
    [relays |-> TurnOffAll(CylindersStopRelays(CloseAllValves(act.relays, f), f), f),
     cyl    |-> CylindersStopState(f)]

\* leak_rate = pressure_drop / duration if duration > 0 else 0
LeakRate(drop, duration) ==
    IF duration > 0 THEN <<drop * TicksPerSecond, duration>> ELSE <<0, 1>>

\* a <= b for fractions with positive denominators
FracLeq(a, b) == a[1] * b[2] <= b[1] * a[2]

\* mutant of Verdict: the limit itself fails
Verdict_Strict(rate, cfg) ==
    IF FracLeq(rate, cfg.max_leak_rate) /\ ~FracLeq(cfg.max_leak_rate, rate)
    THEN "PASS" ELSE "FAIL"

\* if leak_rate <= self.config.max_leak_rate
Verdict(rate, cfg) == IF FracLeq(rate, cfg.max_leak_rate) THEN "PASS" ELSE "FAIL"

\* mutant of InsufficientData: one sample is taken for enough
InsufficientData_OffByOne(rds) == Len(rds) < 1

\* len(pressure_readings) < 2
InsufficientData(rds) == Len(rds) < 2

\* mutant of Evaluate: the end pressure is the lowest sample of the series
Evaluate_LowestSample(td, cfg) ==
    LET rds == td.pressure_readings IN
    IF InsufficientData(rds)
    THEN [data |-> td, result |-> "ERROR", ok |-> FALSE]
    ELSE LET start_pressure == rds[1][2]
             end_pressure   == CHOOSE p \in {rds[i][2] : i \in 1..Len(rds)} :
                                   \A i \in 1..Len(rds) : p <= rds[i][2]
             duration       == rds[Len(rds)][1]
             pressure_drop  == start_pressure - end_pressure
             leak_rate      == LeakRate(pressure_drop, duration)
         IN [data |-> [td EXCEPT !.evaluated = TRUE,
                                 !.start_pressure = start_pressure,
                                 !.end_pressure = end_pressure,
                                 !.pressure_drop = pressure_drop,
                                 !.leak_rate = leak_rate],
             result |-> Verdict(leak_rate, cfg),
             ok |-> TRUE]

\* _phase_evaluate: the test_data and result it leaves
Evaluate(td, cfg) ==
    LET rds == td.pressure_readings IN
    IF InsufficientData(rds)
    THEN [data |-> td, result |-> "ERROR", ok |-> FALSE]
    ELSE LET start_pressure == rds[1][2]
             end_pressure   == rds[Len(rds)][2]
             duration       == rds[Len(rds)][1]
             pressure_drop  == start_pressure - end_pressure
             leak_rate      == LeakRate(pressure_drop, duration)
         IN [data |-> [td EXCEPT !.evaluated = TRUE,
                                 !.start_pressure = start_pressure,
                                 !.end_pressure = end_pressure,
                                 !.pressure_drop = pressure_drop,
                                 !.leak_rate = leak_rate],
             result |-> Verdict(leak_rate, cfg),
             ok |-> TRUE]

\* mutant of RunTestNext: a failed phase ends the run without cleanup
RunTestNext_NoCleanup(phase, ok) ==
    CASE phase = "extend"    -> IF ok THEN "fill" ELSE "finish"
      [] phase = "fill"      -> IF ok THEN "stabilize" ELSE "finish"
      [] phase = "stabilize" -> IF ok THEN "isolate" ELSE "finish"
      [] phase = "isolate"   -> IF ok THEN "test" ELSE "finish"
      [] phase = "test"      -> IF ok THEN "evaluate" ELSE "finish"
      [] phase = "evaluate"  -> "exhaust"
      [] phase = "exhaust"   -> "retract"
      [] phase = "retract"   -> "finish"

\* mutant of RunTestNext: the cleanup retracts before it exhausts
RunTestNext_RetractFirst(phase, ok) ==
    CASE phase = "extend"    -> IF ok THEN "fill" ELSE "retract"
      [] phase = "fill"      -> IF ok THEN "stabilize" ELSE "retract"
      [] phase = "stabilize" -> IF ok THEN "isolate" ELSE "retract"
      [] phase = "isolate"   -> IF ok THEN "test" ELSE "retract"
      [] phase = "test"      -> IF ok THEN "evaluate" ELSE "retract"
      [] phase = "evaluate"  -> "retract"
      [] phase = "retract"   -> "exhaust"
      [] phase = "exhaust"   -> "finish"

\* mutant of RunTestNext: the value a pre-cleanup phase returns is not looked at
RunTestNext_IgnoreFailure(phase, ok) ==
    CASE phase = "extend"    -> "fill"
      [] phase = "fill"      -> "stabilize"
      [] phase = "stabilize" -> "isolate"
      [] phase = "isolate"   -> "test"
      [] phase = "test"      -> "evaluate"
      [] phase = "evaluate"  -> "exhaust"
      [] phase = "exhaust"   -> "retract"
      [] phase = "retract"   -> "finish"

\* mutant of RunTestNext: a phase that failed is run again
RunTestNext_Retry(phase, ok) ==
    CASE phase = "extend"    -> IF ok THEN "fill" ELSE "extend"
      [] phase = "fill"      -> IF ok THEN "stabilize" ELSE "fill"
      [] phase = "stabilize" -> IF ok THEN "isolate" ELSE "exhaust"
      [] phase = "isolate"   -> IF ok THEN "test" ELSE "isolate"
      [] phase = "test"      -> IF ok THEN "evaluate" ELSE "exhaust"
      [] phase = "evaluate"  -> "exhaust"
      [] phase = "exhaust"   -> IF ok THEN "retract" ELSE "exhaust"
      [] phase = "retract"   -> IF ok THEN "finish" ELSE "retract"

\* mutant of RunTestNext: the run returns straight from the retract phase
RunTestNext_EarlyReturn(phase, ok) ==
    CASE phase = "extend"    -> IF ok THEN "fill" ELSE "exhaust"
      [] phase = "fill"      -> IF ok THEN "stabilize" ELSE "exhaust"
      [] phase = "stabilize" -> IF ok THEN "isolate" ELSE "exhaust"
      [] phase = "isolate"   -> IF ok THEN "test" ELSE "exhaust"
      [] phase = "test"      -> IF ok THEN "evaluate" ELSE "exhaust"
      [] phase = "evaluate"  -> "exhaust"
      [] phase = "exhaust"   -> "retract"
      [] phase = "retract"   -> "returned"

\* run_test: where the sequence continues after a phase returned ok
RunTestNext(phase, ok) ==
    CASE phase = "extend"    -> IF ok THEN "fill" ELSE "exhaust"
      [] phase = "fill"      -> IF ok THEN "stabilize" ELSE "exhaust"
      [] phase = "stabilize" -> IF ok THEN "isolate" ELSE "exhaust"
      [] phase = "isolate"   -> IF ok THEN "test" ELSE "exhaust"
      [] phase = "test"      -> IF ok THEN "evaluate" ELSE "exhaust"
      [] phase = "evaluate"  -> "exhaust"
      [] phase = "exhaust"   -> "retract"
      [] phase = "retract"   -> "finish"

\* mutant of CleanupResult: a failed cleanup phase sets ERROR as the other phases do
CleanupResult_Error(r, ok) == IF ok THEN r ELSE "ERROR"

\* _phase_exhaust, _phase_retract_cylinders: neither assigns test_result, whatever
\* the actuator returned
CleanupResult(r, ok) == r

\* mutant of FinalResult: the result is set to ERROR whatever it was
FinalResult_Always(r) == "ERROR"

\* if self.test_result == TestResult.NONE: self.test_result = TestResult.ERROR
FinalResult(r) == IF r = "NONE" THEN "ERROR" ELSE r

HoldPcs == {"extend_hold", "fill_hold", "stab_sleep", "test_sleep",
            "exhaust_hold", "retract_hold"}

\* the positions before _phase_evaluate has set PASS or FAIL
PreVerdictPcs == {"extend", "extend_hold", "fill", "fill_hold", "stabilize", "stab_loop",
                  "stab_sleep", "isolate", "test", "test_loop", "test_sleep", "evaluate"}

ActivePcs == {"extend", "extend_hold", "fill", "fill_hold", "stabilize", "stab_loop",
              "stab_sleep", "isolate", "test", "test_loop", "test_sleep", "evaluate",
              "exhaust", "exhaust_hold", "retract", "retract_hold", "finish"}

PcStates == ActivePcs \cup {"idle", "spawned", "returned"}

----------------------------------------------------------------------------
(* PressureCalibration.  Currents are whole mA, pressures whole PSI, and the     *)
(* value of a conversion is an exact fraction <<num, den>> with den > 0.         *)

Currents == 0..MaxCurrent

\* the transducer range of the configuration
Transducer == [min_current_ma |-> 1, max_current_ma |-> 3,
               min_pressure_psi |-> 0, max_pressure_psi |-> 2]

\* calibration points are added at the two ends of the configured pressure range
PointPressures == {Transducer.min_pressure_psi, Transducer.max_pressure_psi}

CalibrationPoints == Currents \X PointPressures

\* _set_config_calibration: balance, midpoint and full scale
ConfigCalibration == << <<1, 0>>, <<2, 1>>, <<3, 2>> >>

\* a range whose two currents coincide
FlatTransducer == [min_current_ma |-> 2, max_current_ma |-> 2,
                   min_pressure_psi |-> 1, max_pressure_psi |-> 2]

Transducers == {Transducer, FlatTransducer}

\* what a calibration file may hold: a transducer range and a point list
CalibrationFiles ==
    { [range |-> Transducer,     points |-> <<>>],
      [range |-> Transducer,     points |-> << <<2, 1>> >>],
      [range |-> Transducer,     points |-> << <<3, 2>>, <<1, 0>> >>],
      [range |-> FlatTransducer, points |-> <<>>] }

FracEq(a, b) == a[1] * b[2] = b[1] * a[2]

\* mutant of CurrentToPressureLinear: the lower bound's pressure whatever the current
CurrentToPressureLinear_Constant(current_ma) == <<transducer.min_pressure_psi, 1>>

\* current_to_pressure_linear: slope * current_ma + intercept
CurrentToPressureLinear(current_ma) ==
    LET current_range  == transducer.max_current_ma - transducer.min_current_ma
        pressure_range == transducer.max_pressure_psi - transducer.min_pressure_psi
    IN IF current_range = 0
       THEN <<transducer.min_pressure_psi, 1>>
       ELSE <<transducer.min_pressure_psi * current_range
                + pressure_range * (current_ma - transducer.min_current_ma),
              current_range>>

\* one step of sorted(): p goes behind every point whose current is not larger
InsertByCurrent(sorted, p) ==
    LET before == {i \in 1..Len(sorted) : sorted[i][1] <= p[1]}
        k      == Cardinality(before)
    IN SubSeq(sorted, 1, k) \o <<p>> \o SubSeq(sorted, k + 1, Len(sorted))

RECURSIVE SortByCurrent(_)
\* sorted(self.calibration_points, key=lambda p: p.current_ma), a stable sort
SortByCurrent(pts) ==
    IF pts = <<>> THEN <<>>
    ELSE InsertByCurrent(SortByCurrent(SubSeq(pts, 1, Len(pts) - 1)), pts[Len(pts)])

\* mutant of Interpolate: the distance is measured from the upper point
Interpolate_FromUpper(p1, p2, current_ma) ==
    IF p2[1] = p1[1] THEN <<p1[2], 1>>
    ELSE <<p1[2] * (p2[1] - p1[1]) + (p2[2] - p1[2]) * (p2[1] - current_ma),
           p2[1] - p1[1]>>

\* mutant of Interpolate: the lower point's pressure is held over the interval
Interpolate_Step(p1, p2, current_ma) == <<p1[2], 1>>

\* y1 + (y2 - y1) * (current_ma - x1) / (x2 - x1), or y1 when x2 == x1
Interpolate(p1, p2, current_ma) ==
    IF p2[1] = p1[1] THEN <<p1[2], 1>>
    ELSE <<p1[2] * (p2[1] - p1[1]) + (p2[2] - p1[2]) * (current_ma - p1[1]),
           p2[1] - p1[1]>>

\* mutant of ClampBelow: below the range the first interval's line is extended
ClampBelow_Extrapolate(points, current_ma) == Interpolate(points[1], points[2], current_ma)

\* current_ma <= points[0].current_ma: return points[0].pressure_psi
ClampBelow(points, current_ma) == <<points[1][2], 1>>

\* current_ma >= points[-1].current_ma: return points[-1].pressure_psi
ClampAbove(points, current_ma) == <<points[Len(points)][2], 1>>

\* the first i with points[i].current_ma <= current_ma <= points[i + 1].current_ma
Bracket(points, current_ma) ==
    LET holds == {i \in 1..(Len(points) - 1) :
                     points[i][1] <= current_ma /\ current_ma <= points[i + 1][1]}
    IN CHOOSE i \in holds : \A j \in holds : i <= j

\* current_to_pressure_multipoint
CurrentToPressureMultipoint(pts, current_ma) ==
    IF Len(pts) < 2 THEN CurrentToPressureLinear(current_ma)
    ELSE LET points == SortByCurrent(pts) IN
         IF current_ma <= points[1][1] THEN ClampBelow(points, current_ma)
         ELSE IF current_ma >= points[Len(points)][1] THEN ClampAbove(points, current_ma)
         ELSE LET i == Bracket(points, current_ma)
              IN Interpolate(points[i], points[i + 1], current_ma)

----------------------------------------------------------------------------
(* Leak analysis of the front ends (MainUI, TerminalLeakTester).  Times are whole *)
(* seconds; a slope and a leak rate are exact fractions <<num, den>>.             *)

Times == 0..MaxTime

\* test_volume_cc when the configuration gives none
DefaultVolume == 100

\* test_volume_cc of the configuration
TestVolumes == {1, DefaultVolume}

SecondsPerMinute == 60

\* 14.69 psi
StandardAtmosphere == <<1469, 100>>

Abs(x) == IF x < 0 THEN -x ELSE x

RECURSIVE Sum(_)
Sum(xs) == IF xs = <<>> THEN 0 ELSE xs[1] + Sum(Tail(xs))

\* the slope of the degree-1 least-squares fit, np.polyfit(times, pressures, 1)[0]
Polyfit1(samples) ==
    LET n   == Len(samples)
        sx  == Sum([i \in 1..n |-> samples[i][1]])
        sy  == Sum([i \in 1..n |-> samples[i][2]])
        sxx == Sum([i \in 1..n |-> samples[i][1] * samples[i][1]])
        sxy == Sum([i \in 1..n |-> samples[i][1] * samples[i][2]])
    IN <<n * sxy - sx * sy, n * sxx - sx * sx>>

\* mutant of CalculatePressureDecay: the slope between the first and the last sample
CalculatePressureDecay_Endpoints(samples) ==
    IF Len(samples) < 2 THEN <<0, 1>>
    ELSE <<samples[Len(samples)][2] - samples[1][2],
           samples[Len(samples)][1] - samples[1][1]>>

\* _calculate_pressure_decay(times, pressures)
CalculatePressureDecay(samples) ==
    IF Len(samples) < 2 THEN <<0, 1>> ELSE Polyfit1(samples)

\* mutant of CalculateLeakRate: the sign of the slope is kept
CalculateLeakRate_Signed(volume_cc, slope) ==
    <<volume_cc * slope[1] * SecondsPerMinute * StandardAtmosphere[2],
      slope[2] * StandardAtmosphere[1]>>

\* _calculate_leak_rate: abs((test_volume_cc * pressure_decay_psi_s * 60.0) / 14.69)
CalculateLeakRate(volume_cc, slope) ==
    <<Abs(volume_cc * slope[1] * SecondsPerMinute * StandardAtmosphere[2]),
      Abs(slope[2] * StandardAtmosphere[1])>>

----------------------------------------------------------------------------
(* Bookkeeping shared by the steps of run_test *)

\* the sets of relays, among those a step commands, whose commands fail in that step
Faults(ids) == SUBSET (env.faulty \cap ids)

Goto(t, where) == pc' = [pc EXCEPT ![t] = where]

\* the failures that can tell one stop from another: a failing off-command changes
\* the outcome only for a relay that is on, or, through the value Cylinders.stop
\* returns, for a cylinder relay
StopFaults(rs) == Faults({r \in Relays : rs[r]} \cup {"extend"})

\* one more call of an actuator operation
Command(op) == commands' = [commands EXCEPT ![op] = @ + 1]

\* _log_pressure with data logging enabled: a read that raises is logged as an ERROR
\* system event, ...
LogEvent(ev, rd) == ev \/ (env.logging /\ rd = RAISE)

\* ... any other read is handed to log_pressure_reading with the current phase
LogBreach(br, rd, phase) ==
    IF env.logging /\ br = "none" /\ rd # RAISE /\ rd > config.max_pressure
    THEN phase ELSE br

\* log_system_event('ERROR', ...) in the failure branch of a phase
ErrorEvent(ev, failed) == ev \/ (env.logging /\ failed)

\* a pre-cleanup phase sets test_result = ERROR and returns False
PhaseFails(t, phase, kind) ==
    /\ test_result' = "ERROR"
    /\ result_writes' = result_writes + 1
    /\ fault' = IF fault = "none" THEN kind ELSE fault
    /\ Goto(t, RunTestNext(phase, FALSE))

\* the kind of fault of a safety check that returns False: its read raised
\* ("read") or the pressure was above max_pressure ("safety")
CheckFailed(chk) == IF chk = RAISE THEN "read" ELSE "safety"

\* the fault on record when a safety check has returned True: a read that raised
\* stays on record whatever the check made of it
CheckPassed(flt, chk) == IF chk = RAISE THEN "read" ELSE flt

\* a phase returns True
PhaseSucceeds(t, phase) ==
    /\ Goto(t, RunTestNext(phase, TRUE))
    /\ UNCHANGED <<test_result, result_writes, fault>>

\* what a phase_callback call can do: return, or, with a callback that can raise,
\* raise
CallbackOutcomes == IF env.raising THEN BOOLEAN ELSE {FALSE}

\* mutant of SetPhaseRaises: _set_phase lets the exception of the callback through
SetPhaseRaises_Uncaught(raised) == raised

\* _set_phase raises: never, the callback is called inside try/except Exception
SetPhaseRaises(raised) == FALSE

\* whether a callback has raised so far, after _set_phase(phase) with that outcome
CallbackRaised(cr, cur, phase, raised) == cr \/ (cur # phase /\ env.callback /\ raised)

\* _set_phase(phase) returns
EnterPhase(phase) ==
    /\ current_phase' = phase
    /\ phase_trace' = SetPhaseTrace(phase_trace, current_phase, phase, env.callback)
    /\ \E raised \in CallbackOutcomes :
         /\ ~SetPhaseRaises(raised)
         /\ callback_raised' = CallbackRaised(callback_raised, current_phase, phase, raised)

\* a time.sleep hold returns after its full duration
HoldEnds ==
    /\ hold_ran_out' = (hold_ran_out \/ stop_in_hold)
    /\ stop_in_hold' = FALSE

NoHold == UNCHANGED <<stop_in_hold, hold_ran_out>>

----------------------------------------------------------------------------
(* MainUI *)

\* on_start_test: ignored while a test is in progress, else starts the worker thread
OnStartTest ==
    IF ui_is_testing
    THEN UNCHANGED vars
    ELSE /\ ui_is_testing' = TRUE
         /\ Goto(Worker, "spawned")
         /\ UNCHANGED <<env, config, current_phase, test_result, is_testing, test_data,
                        relay_states, cyl_state, readings, elapsed, phase_trace, fault,
                        result_writes, stop_when, stop_in_hold, hold_ran_out>>
         /\ UNCHANGED <<obs, notes, cal, analysis, valve>>

\* _finish_test, scheduled by _run_test once run_test has returned
FinishTest ==
    /\ pc[Worker] = "returned"
    /\ ui_is_testing' = FALSE
    /\ Goto(Worker, "idle")
    /\ UNCHANGED <<env, config, current_phase, test_result, is_testing, test_data,
                   relay_states, cyl_state, readings, elapsed, phase_trace, fault,
                   result_writes, stop_when, stop_in_hold, hold_ran_out, commands,
                   cleanup_failed, error_events, breach>>
    /\ UNCHANGED <<notes, cal, analysis, valve>>

----------------------------------------------------------------------------
(* TestRunner.run_test, one action per stretch between suspension points *)

RunTestBegin(t) ==
    /\ pc[t] = "spawned"
    /\ is_testing' = TRUE
    /\ test_result' = "NONE"
    /\ test_data' = EmptyTestData
    /\ phase_trace' = <<current_phase>>
    /\ fault' = "none"
    /\ result_writes' = 0
    /\ stop_when' = "none"
    /\ stop_in_hold' = FALSE
    /\ hold_ran_out' = FALSE
    /\ commands' = [op \in Operations |-> 0]
    /\ cleanup_failed' = FALSE
    /\ error_events' = FALSE
    /\ breach' = "none"
    /\ fill_warning' = FALSE
    /\ logged' = <<>>
    /\ callback_raised' = FALSE
    /\ stop_issued' = {}
    /\ stop_failed' = {}
    /\ Goto(t, "extend")
    /\ UNCHANGED <<env, config, current_phase, relay_states, cyl_state, ui_is_testing,
                   readings, elapsed>>
    /\ UNCHANGED <<cal, analysis, valve>>

\* _phase_extend_cylinders up to the hold inside Cylinders.extend
ExtendBegin(t) ==
    /\ pc[t] = "extend"
    /\ EnterPhase("Extending cylinders")
    /\ \E f \in Faults({"extend", "retract"}) :
         /\ relay_states' = RelaySet(EnsureSafeState(relay_states, f), "extend", TRUE, f)
         /\ error_events' = ErrorEvent(error_events, ~RelayOk("extend", f))
         /\ IF RelayOk("extend", f)
            THEN /\ cyl_state' = "moving"
                 /\ Goto(t, "extend_hold")
                 /\ UNCHANGED <<test_result, result_writes, fault>>
            ELSE /\ cyl_state' = "unknown"
                 /\ PhaseFails(t, "extend", "actuator")
    /\ NoHold
    /\ UNCHANGED <<env, config, is_testing, test_data, ui_is_testing, readings, elapsed,
                   stop_when>>
    /\ Command("extend")
    /\ UNCHANGED <<cleanup_failed, breach>>
    /\ UNCHANGED <<fill_warning, logged, stop_issued, stop_failed>>
    /\ UNCHANGED <<cal, analysis, valve>>

\* time.sleep(extend_time) returns; extend solenoid off; the phase returns True
ExtendHoldDone(t) ==
    /\ pc[t] = "extend_hold"
    /\ \E f \in Faults({"extend"}) : relay_states' = RelaySet(relay_states, "extend", FALSE, f)
    /\ cyl_state' = "extended"
    /\ PhaseSucceeds(t, "extend")
    /\ HoldEnds
    /\ UNCHANGED <<env, config, current_phase, is_testing, test_data, ui_is_testing, readings,
                   elapsed, phase_trace, stop_when>>
    /\ UNCHANGED obs
    /\ UNCHANGED <<notes, cal, analysis, valve>>

\* pressure < target_fill_pressure - pressure_tolerance
Underfilled(pressure, cfg) == pressure < cfg.target_fill_pressure - cfg.pressure_tolerance

\* mutant of FillReturns: a fill that stays below the target fails the phase
FillReturns_TargetRequired(ok, pressure, cfg) == ok /\ ~Underfilled(pressure, cfg)

\* what _phase_fill_dut returns, given what solenoid_valves.fill returned and the
\* pressure _log_pressure returned after it: True in both branches of the comparison
FillReturns(ok, pressure, cfg) == ok

\* the 'Fill pressure low' WARNING system event, with data logging enabled
FillWarning(fw, ok, pressure, cfg) == fw \/ (env.logging /\ ok /\ Underfilled(pressure, cfg))

\* _phase_fill_dut up to the hold inside SolenoidValves.fill
FillBegin(t) ==
    /\ pc[t] = "fill"
    /\ EnterPhase("Filling DUT")
    /\ \E f \in Faults({"fill"}), rd \in env.reads :
         /\ relay_states' = RelaySet(relay_states, "fill", TRUE, f)
         /\ error_events' = ErrorEvent(LogEvent(error_events, rd), ~RelayOk("fill", f))
         /\ breach' = LogBreach(breach, rd, "Filling DUT")
         /\ IF RelayOk("fill", f)
            THEN /\ Goto(t, "fill_hold")
                 /\ UNCHANGED <<test_result, result_writes, fault>>
            ELSE PhaseFails(t, "fill", "actuator")
    /\ NoHold
    /\ UNCHANGED <<env, config, is_testing, test_data, cyl_state, ui_is_testing, readings,
                   elapsed, stop_when>>
    /\ Command("fill")
    /\ UNCHANGED cleanup_failed
    /\ UNCHANGED <<fill_warning, logged, stop_issued, stop_failed>>
    /\ UNCHANGED <<cal, analysis, valve>>

\* time.sleep(fill_time) returns; stop_fill(); the pressure after the fill is read
\* and a low value only logs a warning
FillHoldDone(t) ==
    /\ pc[t] = "fill_hold"
    /\ \E f \in Faults({"fill"}), rd \in env.reads :
         /\ relay_states' = RelaySet(relay_states, "fill", FALSE, f)
         /\ fill_warning' = FillWarning(fill_warning, RelayOk("fill", f), LogPressure(rd), config)
         /\ IF FillReturns(RelayOk("fill", f), LogPressure(rd), config)
            THEN /\ PhaseSucceeds(t, "fill")
                 /\ error_events' = LogEvent(error_events, rd)
                 /\ breach' = LogBreach(breach, rd, "Filling DUT")
            ELSE /\ PhaseFails(t, "fill", "actuator")
                 /\ error_events' = ErrorEvent(error_events, TRUE)
                 /\ UNCHANGED breach
    /\ HoldEnds
    /\ UNCHANGED <<env, config, current_phase, is_testing, test_data, cyl_state, ui_is_testing,
                   readings, elapsed, phase_trace, stop_when>>
    /\ UNCHANGED <<commands, cleanup_failed>>
    /\ UNCHANGED <<logged, callback_raised, stop_issued, stop_failed>>
    /\ UNCHANGED <<cal, analysis, valve>>

\* _phase_stabilize: stabilize_start = time.time()
StabilizeBegin(t) ==
    /\ pc[t] = "stabilize"
    /\ EnterPhase("Stabilizing")
    /\ elapsed' = [elapsed EXCEPT ![t] = 0]
    /\ Goto(t, "stab_loop")
    /\ NoHold
    /\ UNCHANGED <<env, config, test_result, is_testing, test_data, relay_states, cyl_state,
                   ui_is_testing, readings, fault, result_writes, stop_when>>
    /\ UNCHANGED obs
    /\ UNCHANGED <<fill_warning, logged, stop_issued, stop_failed>>
    /\ UNCHANGED <<cal, analysis, valve>>

\* mutant of SampleTime: the time of the loop test is recorded
SampleTime_AtLoopTest(e) == e

\* elapsed = time.time() - test_start_time, taken once _check_safety_limits has
\* read the pressure
SampleTime(e) == e + CheckReadTime

\* one evaluation of the while condition and, inside the loop, the safety check and
\* the separate _log_pressure read (its value is only logged)
StabilizeIter(t) ==
    /\ pc[t] = "stab_loop"
    /\ IF elapsed[t] < config.stabilize_time
       THEN \E chk \in env.reads, rd \in env.reads :
              IF CheckSafetyLimits(chk, config)
              THEN /\ elapsed' = [elapsed EXCEPT ![t] = @ + CheckReadTime + LogReadTime]
                   /\ error_events' = LogEvent(error_events, rd)
                   /\ breach' = LogBreach(breach, rd, "Stabilizing")
                   /\ Goto(t, "stab_sleep")
                   /\ fault' = CheckPassed(fault, chk)
                   /\ UNCHANGED <<test_result, result_writes>>
              ELSE /\ PhaseFails(t, "stabilize", CheckFailed(chk))
                   /\ UNCHANGED <<elapsed, error_events, breach>>
       ELSE /\ PhaseSucceeds(t, "stabilize")
            /\ UNCHANGED <<elapsed, error_events, breach>>
    /\ NoHold
    /\ UNCHANGED <<env, config, current_phase, is_testing, test_data, relay_states, cyl_state,
                   ui_is_testing, readings, phase_trace, stop_when>>
    /\ UNCHANGED <<commands, cleanup_failed>>
    /\ UNCHANGED <<notes, cal, analysis, valve>>

\* time.sleep(2.0) returns
StabilizeSleepDone(t) ==
    /\ pc[t] = "stab_sleep"
    /\ \E j \in 0..MaxJitter : elapsed' = [elapsed EXCEPT ![t] = @ + StabilizeSleep + j]
    /\ Goto(t, "stab_loop")
    /\ HoldEnds
    /\ UNCHANGED <<env, config, current_phase, test_result, is_testing, test_data, relay_states,
                   cyl_state, ui_is_testing, readings, phase_trace, fault, result_writes,
                   stop_when>>
    /\ UNCHANGED obs
    /\ UNCHANGED <<notes, cal, analysis, valve>>

\* _phase_isolate
Isolate(t) ==
    /\ pc[t] = "isolate"
    /\ EnterPhase("Isolating")
    /\ \E f \in Faults({"fill", "exhaust"}), rd \in env.reads :
         /\ relay_states' = CloseAllValves(relay_states, f)
         /\ IF CloseAllValvesOk(f)
            THEN /\ PhaseSucceeds(t, "isolate")
                 /\ error_events' = LogEvent(error_events, rd)
                 /\ breach' = LogBreach(breach, rd, "Isolating")
            ELSE /\ PhaseFails(t, "isolate", "actuator")
                 /\ UNCHANGED <<error_events, breach>>
    /\ NoHold
    /\ UNCHANGED <<env, config, is_testing, test_data, cyl_state, ui_is_testing, readings,
                   elapsed, stop_when>>
    /\ Command("close_all")
    /\ UNCHANGED cleanup_failed
    /\ UNCHANGED <<fill_warning, logged, stop_issued, stop_failed>>
    /\ UNCHANGED <<cal, analysis, valve>>

\* _phase_test: the initial sample through _log_pressure, test_start_time = time.time()
TestBegin(t) ==
    /\ pc[t] = "test"
    /\ EnterPhase("Testing")
    /\ \E rd \in env.reads :
         /\ readings' = [readings EXCEPT ![t] = << <<0, LogPressure(rd)>> >>]
         /\ error_events' = LogEvent(error_events, rd)
         /\ breach' = LogBreach(breach, rd, "Testing")
    /\ elapsed' = [elapsed EXCEPT ![t] = 0]
    /\ Goto(t, "test_loop")
    /\ NoHold
    /\ UNCHANGED <<env, config, test_result, is_testing, test_data, relay_states, cyl_state,
                   ui_is_testing, fault, result_writes, stop_when>>
    /\ UNCHANGED <<commands, cleanup_failed>>
    /\ UNCHANGED <<fill_warning, logged, stop_issued, stop_failed>>
    /\ UNCHANGED <<cal, analysis, valve>>

\* one evaluation of the while condition and, inside the loop, the safety check (read
\* chk), then elapsed is taken and a second read rd is recorded
TestIter(t) ==
    /\ pc[t] = "test_loop"
    /\ IF elapsed[t] < config.test_duration
       THEN \E chk \in env.reads, rd \in env.reads :
              IF ~CheckSafetyLimits(chk, config)
              THEN /\ PhaseFails(t, "test", CheckFailed(chk))
                   /\ UNCHANGED <<readings, elapsed, test_data>>
              ELSE IF rd = RAISE
              THEN /\ PhaseFails(t, "test", CheckPassed("exception", chk))
                   /\ UNCHANGED <<readings, elapsed, test_data>>
              ELSE /\ readings' = [readings EXCEPT
                                     ![t] = Append(@, <<SampleTime(elapsed[t]), rd>>)]
                   /\ elapsed' = [elapsed EXCEPT ![t] = @ + CheckReadTime + SampleReadTime]
                   /\ Goto(t, "test_sleep")
                   /\ fault' = CheckPassed(fault, chk)
                   /\ UNCHANGED <<test_result, result_writes, test_data>>
       ELSE /\ test_data' = [test_data EXCEPT !.pressure_readings = readings[t]]
            /\ PhaseSucceeds(t, "test")
            /\ UNCHANGED <<readings, elapsed>>
    /\ NoHold
    /\ UNCHANGED <<env, config, current_phase, is_testing, relay_states, cyl_state,
                   ui_is_testing, phase_trace, stop_when>>
    /\ UNCHANGED obs
    /\ UNCHANGED <<notes, cal, analysis, valve>>

\* time.sleep(1.0) returns
TestSleepDone(t) ==
    /\ pc[t] = "test_sleep"
    /\ \E j \in 0..MaxJitter : elapsed' = [elapsed EXCEPT ![t] = @ + TestSleep + j]
    /\ Goto(t, "test_loop")
    /\ HoldEnds
    /\ UNCHANGED <<env, config, current_phase, test_result, is_testing, test_data, relay_states,
                   cyl_state, ui_is_testing, readings, phase_trace, fault, result_writes,
                   stop_when>>
    /\ UNCHANGED obs
    /\ UNCHANGED <<notes, cal, analysis, valve>>

\* _phase_evaluate
EvaluatePhase(t) ==
    /\ pc[t] = "evaluate"
    /\ EnterPhase("Evaluating")
    /\ LET e == Evaluate(test_data, config) IN
         /\ test_data' = e.data
         /\ test_result' = e.result
         /\ result_writes' = result_writes + 1
         /\ fault' = IF ~e.ok /\ fault = "none" THEN "insufficient" ELSE fault
         /\ Goto(t, RunTestNext("evaluate", e.ok))
    /\ NoHold
    /\ UNCHANGED <<env, config, is_testing, relay_states, cyl_state, ui_is_testing, readings,
                   elapsed, stop_when>>
    /\ UNCHANGED obs
    /\ UNCHANGED <<fill_warning, logged, stop_issued, stop_failed>>
    /\ UNCHANGED <<cal, analysis, valve>>

\* _phase_exhaust up to the hold inside SolenoidValves.exhaust
ExhaustBegin(t) ==
    /\ pc[t] = "exhaust"
    /\ EnterPhase("Exhausting")
    /\ \E f \in Faults({"exhaust"}), rd \in env.reads :
         /\ relay_states' = RelaySet(relay_states, "exhaust", TRUE, f)
         /\ error_events' = LogEvent(error_events, rd)
         /\ breach' = LogBreach(breach, rd, "Exhausting")
         /\ cleanup_failed' = (cleanup_failed \/ ~RelayOk("exhaust", f))
         /\ test_result' = CleanupResult(test_result, RelayOk("exhaust", f))
         /\ IF RelayOk("exhaust", f)
            THEN Goto(t, "exhaust_hold")
            ELSE Goto(t, RunTestNext("exhaust", FALSE))
    /\ NoHold
    /\ UNCHANGED <<env, config, is_testing, test_data, cyl_state, ui_is_testing,
                   readings, elapsed, fault, result_writes, stop_when>>
    /\ Command("exhaust")
    /\ UNCHANGED <<fill_warning, logged, stop_issued, stop_failed>>
    /\ UNCHANGED <<cal, analysis, valve>>

\* time.sleep(exhaust_time) returns; stop_exhaust(); the phase's result is ignored
ExhaustHoldDone(t) ==
    /\ pc[t] = "exhaust_hold"
    /\ \E f \in Faults({"exhaust"}), rd \in env.reads :
         /\ relay_states' = RelaySet(relay_states, "exhaust", FALSE, f)
         /\ error_events' = (IF RelayOk("exhaust", f) THEN LogEvent(error_events, rd)
                              ELSE error_events)
         /\ breach' = (IF RelayOk("exhaust", f) THEN LogBreach(breach, rd, "Exhausting")
                        ELSE breach)
         /\ cleanup_failed' = (cleanup_failed \/ ~RelayOk("exhaust", f))
         /\ test_result' = CleanupResult(test_result, RelayOk("exhaust", f))
         /\ Goto(t, RunTestNext("exhaust", RelayOk("exhaust", f)))
    /\ HoldEnds
    /\ UNCHANGED <<env, config, current_phase, is_testing, test_data, cyl_state,
                   ui_is_testing, readings, elapsed, phase_trace, fault, result_writes,
                   stop_when>>
    /\ UNCHANGED commands
    /\ UNCHANGED <<notes, cal, analysis, valve>>

\* _phase_retract_cylinders up to the hold inside Cylinders.retract
RetractBegin(t) ==
    /\ pc[t] = "retract"
    /\ EnterPhase("Retracting cylinders")
    /\ \E f \in Faults({"extend", "retract"}) :
         /\ relay_states' = RelaySet(EnsureSafeState(relay_states, f), "retract", TRUE, f)
         /\ cleanup_failed' = (cleanup_failed \/ ~RelayOk("retract", f))
         /\ test_result' = CleanupResult(test_result, RelayOk("retract", f))
         /\ IF RelayOk("retract", f)
            THEN /\ cyl_state' = "moving"
                 /\ Goto(t, "retract_hold")
            ELSE /\ cyl_state' = "unknown"
                 /\ Goto(t, RunTestNext("retract", FALSE))
    /\ NoHold
    /\ UNCHANGED <<env, config, is_testing, test_data, ui_is_testing, readings,
                   elapsed, fault, result_writes, stop_when>>
    /\ Command("retract")
    /\ UNCHANGED <<error_events, breach>>
    /\ UNCHANGED <<fill_warning, logged, stop_issued, stop_failed>>
    /\ UNCHANGED <<cal, analysis, valve>>

\* time.sleep(retract_time) returns; retract solenoid off
RetractHoldDone(t) ==
    /\ pc[t] = "retract_hold"
    /\ \E f \in Faults({"retract"}) : relay_states' = RelaySet(relay_states, "retract", FALSE, f)
    /\ cyl_state' = "retracted"
    /\ test_result' = CleanupResult(test_result, TRUE)
    /\ Goto(t, RunTestNext("retract", TRUE))
    /\ HoldEnds
    /\ UNCHANGED <<env, config, current_phase, is_testing, test_data, ui_is_testing,
                   readings, elapsed, phase_trace, fault, result_writes, stop_when>>
    /\ UNCHANGED obs
    /\ UNCHANGED <<notes, cal, analysis, valve>>

\* mutant of LogTestResult: the result is handed over as it was when the try block
\* was left
LogTestResult_BeforeFinal(lg, before, final) == IF env.logging THEN Append(lg, before) ELSE lg

\* the finally block of run_test with data logging enabled: log_test_result is
\* called with test_result.value as it is by then
LogTestResult(lg, before, final) == IF env.logging THEN Append(lg, final) ELSE lg

\* the end of run_test: the NONE -> ERROR default, COMPLETE, and the finally block
RunTestFinish(t) ==
    /\ pc[t] = "finish"
    /\ test_result' = FinalResult(test_result)
    /\ result_writes' = IF test_result' # test_result THEN result_writes + 1
                        ELSE result_writes
    /\ EnterPhase("Complete")
    /\ logged' = LogTestResult(logged, test_result, test_result')
    /\ is_testing' = FALSE
    /\ readings' = [readings EXCEPT ![t] = <<>>]
    /\ elapsed' = [elapsed EXCEPT ![t] = 0]
    /\ Goto(t, "returned")
    /\ NoHold
    /\ UNCHANGED <<env, config, test_data, relay_states, cyl_state, ui_is_testing, fault,
                   stop_when>>
    /\ UNCHANGED obs
    /\ UNCHANGED <<fill_warning, stop_issued, stop_failed>>
    /\ UNCHANGED <<cal, analysis, valve>>

\* the positions at which a phase, or the end of the try block, is about to call
\* _set_phase, outside any try of its own
PhaseEntryPcs == {"extend", "fill", "stabilize", "isolate", "test", "evaluate",
                  "exhaust", "retract", "finish"}

\* the phase whose _set_phase is called at a position
PhaseAt(p) ==
    CASE p = "extend"    -> "Extending cylinders"
      [] p = "fill"      -> "Filling DUT"
      [] p = "stabilize" -> "Stabilizing"
      [] p = "isolate"   -> "Isolating"
      [] p = "test"      -> "Testing"
      [] p = "evaluate"  -> "Evaluating"
      [] p = "exhaust"   -> "Exhausting"
      [] p = "retract"   -> "Retracting cylinders"
      [] p = "finish"    -> "Complete"

\* what can send run_test into its except branch at a position: an exception of the
\* statement itself ("escaped"), or the phase callback's, if _set_phase let it through
EscapeCauses(p) ==
    {"escaped"} \cup
    {c \in {"callback"} : /\ env.callback
                          /\ current_phase # PhaseAt(p)
                          /\ \E raised \in CallbackOutcomes : SetPhaseRaises(raised)}

\* an exception escapes into run_test's except branch: test_result = ERROR,
\* _set_phase(ERROR), an ERROR system event, _emergency_stop; then the finally block
RunTestRaises(t) ==
    /\ pc[t] \in PhaseEntryPcs
    /\ test_result' = "ERROR"
    /\ result_writes' = IF test_result # "ERROR" THEN result_writes + 1 ELSE result_writes
    /\ \E cause \in EscapeCauses(pc[t]), raised \in CallbackOutcomes :
         LET byCallback == cause = "callback"
             cur   == IF byCallback THEN PhaseAt(pc[t]) ELSE current_phase
             trace == IF byCallback THEN Append(phase_trace, PhaseAt(pc[t]))
                      ELSE phase_trace
         IN /\ fault' = IF fault = "none" THEN cause ELSE fault
            /\ current_phase' = "Error"
            /\ phase_trace' = SetPhaseTrace(trace, cur, "Error", env.callback)
            /\ callback_raised' = CallbackRaised(callback_raised \/ byCallback, cur,
                                                  "Error", raised)
    /\ error_events' = ErrorEvent(error_events, TRUE)
    /\ logged' = LogTestResult(logged, test_result, test_result')
    /\ \E f \in StopFaults(relay_states) : \E issued \in {StopIssued(f)} :
         LET act == EmergencyStop([relays |-> relay_states, cyl |-> cyl_state], f)
         IN /\ relay_states' = [r \in Relays |-> IF r \in issued THEN act.relays[r]
                                                 ELSE relay_states[r]]
            /\ cyl_state' = act.cyl
            /\ stop_issued' = issued
            /\ stop_failed' = f
    /\ stop_when' = IF stop_when # "none" THEN stop_when
                    ELSE IF pc[t] \in PreVerdictPcs THEN "before_verdict"
                    ELSE "after_verdict"
    /\ is_testing' = FALSE
    /\ readings' = [readings EXCEPT ![t] = <<>>]
    /\ elapsed' = [elapsed EXCEPT ![t] = 0]
    /\ Goto(t, "returned")
    /\ NoHold
    /\ UNCHANGED <<env, config, test_data, ui_is_testing, commands, cleanup_failed, breach>>
    /\ UNCHANGED <<fill_warning>>
    /\ UNCHANGED <<cal, analysis, valve>>

\* TestRunner.close() called from another thread (MainUI.exit_app) while a test is in
\* progress: _emergency_stop, then solenoid_valves.close() and cylinders.close().
Close ==
    /\ is_testing
    /\ \E f \in StopFaults(relay_states) :
         LET act == EmergencyStop([relays |-> relay_states, cyl |-> cyl_state], f)
         IN /\ relay_states' = CylindersStopRelays(CloseAllValves(act.relays, f), f)
            /\ cyl_state' = CylindersStopState(f)
    /\ stop_when' = IF stop_when # "none" THEN stop_when
                    ELSE IF \E t \in Threads : pc[t] \in PreVerdictPcs THEN "before_verdict"
                    ELSE "after_verdict"
    /\ stop_in_hold' = (stop_in_hold \/ \E t \in Threads : pc[t] \in HoldPcs)
    /\ UNCHANGED <<env, config, current_phase, test_result, is_testing, test_data,
                   ui_is_testing, pc, readings, elapsed, phase_trace, fault,
                   result_writes, hold_ran_out>>
    /\ UNCHANGED obs
    /\ UNCHANGED <<notes, cal, analysis, valve>>

\* a second caller invokes run_test on the same TestRunner directly
DirectRunTest ==
    /\ pc[Caller] = "idle"
    /\ Goto(Caller, "spawned")
    /\ UNCHANGED <<env, config, current_phase, test_result, is_testing, test_data,
                   relay_states, cyl_state, ui_is_testing, readings, elapsed,
                   phase_trace, fault, result_writes, stop_when, stop_in_hold,
                   hold_ran_out>>
    /\ UNCHANGED obs
    /\ UNCHANGED <<notes, cal, analysis, valve>>

\* run_test returns to that caller
DirectReturn ==
    /\ pc[Caller] = "returned"
    /\ Goto(Caller, "idle")
    /\ UNCHANGED <<env, config, current_phase, test_result, is_testing, test_data,
                   relay_states, cyl_state, ui_is_testing, readings, elapsed,
                   phase_trace, fault, result_writes, stop_when, stop_in_hold,
                   hold_ran_out>>
    /\ UNCHANGED obs
    /\ UNCHANGED <<notes, cal, analysis, valve>>

----------------------------------------------------------------------------
(* PressureCalibration operations *)

runner == <<env, config, current_phase, test_result, is_testing, test_data, relay_states,
            cyl_state, ui_is_testing, pc, readings, elapsed, phase_trace, fault,
            result_writes, stop_when, stop_in_hold, hold_ran_out, obs, notes>>

\* add_calibration_point
AddCalibrationPoint ==
    /\ Len(calibration_points) < MaxPoints
    /\ \E p \in CalibrationPoints : calibration_points' = Append(calibration_points, p)
    /\ cal_input' = <<>>
    /\ cal_output' = <<0, 1>>
    /\ UNCHANGED <<transducer, runner, analysis, valve>>

\* calibrate_from_known_pressure: the averaged ADC current is added with the known
\* pressure
CalibrateFromKnownPressure ==
    /\ Len(calibration_points) < MaxPoints
    /\ \E avg_current \in Currents, known_pressure_psi \in PointPressures :
         calibration_points' = Append(calibration_points, <<avg_current, known_pressure_psi>>)
    /\ cal_input' = <<>>
    /\ cal_output' = <<0, 1>>
    /\ UNCHANGED <<transducer, runner, analysis, valve>>

\* load_calibration: the range and the point list of the file replace those of the
\* object
LoadCalibration ==
    /\ \E file \in CalibrationFiles :
         /\ transducer' = file.range
         /\ calibration_points' = file.points
    /\ cal_input' = <<>>
    /\ cal_output' = <<0, 1>>
    /\ UNCHANGED <<runner, analysis, valve>>

\* current_to_pressure(current_ma)
CurrentToPressure ==
    /\ \E current_ma \in Currents :
         /\ cal_input' = <<current_ma>>
         /\ cal_output' = CurrentToPressureMultipoint(calibration_points, current_ma)
    /\ UNCHANGED <<calibration_points, transducer, runner, analysis, valve>>

----------------------------------------------------------------------------
(* Leak analysis operations *)

\* _update_pressure in the Testing phase: the elapsed time and the pressure are
\* appended; time.time() has moved on since the sample before
AddTestPhaseData ==
    /\ Len(test_phase_data) < MaxSamples
    /\ \E t \in Times, p \in Pressures :
         /\ test_phase_data # <<>> => t > test_phase_data[Len(test_phase_data)][1]
         /\ test_phase_data' = Append(test_phase_data, <<t, p>>)
    /\ pressure_decay' = <<>>
    /\ leak_rate_sccm' = <<>>
    /\ UNCHANGED <<test_volume_cc, runner, cal, valve>>

\* _calculate_pressure_decay(test_phase_data['times'], test_phase_data['pressures'])
DecayOfTestPhase ==
    /\ pressure_decay' = <<CalculatePressureDecay(test_phase_data)>>
    /\ leak_rate_sccm' = <<>>
    /\ UNCHANGED <<test_phase_data, test_volume_cc, runner, cal, valve>>

\* _calculate_leak_rate(pressure decay)
LeakRateOfDecay ==
    /\ pressure_decay # <<>>
    /\ leak_rate_sccm' = <<CalculateLeakRate(test_volume_cc, pressure_decay[1])>>
    /\ UNCHANGED <<test_phase_data, pressure_decay, test_volume_cc, runner, cal, valve>>

\* _reset_plot_data / on_start_test: the samples of the last run are dropped
ResetTestPhaseData ==
    /\ test_phase_data' = <<>>
    /\ pressure_decay' = <<>>
    /\ leak_rate_sccm' = <<>>
    /\ UNCHANGED <<test_volume_cc, runner, cal, valve>>

----------------------------------------------------------------------------
(* ValveController (src/test.py): the two solenoids of the 5/3 valve, switched   *)
(* from the input loop of main() and switched off by threading.Timer callbacks.  *)
(* Every method body and every callback body runs under timer_lock, so each is   *)
(* one step; a Timer's expiry and the run of its callback are two steps.         *)

Valves == {"extend", "retract"}

Other(v) == IF v = "extend" THEN "retract" ELSE "extend"

NoTimer == 0
TimerIds == 1..MaxTimers

\* how far a Timer thread has come: in finished.wait(interval); past the wait with
\* finished unset, its function about to run or waiting for timer_lock; woken by
\* cancel(); function returned
TimerStates == {"waiting", "expired", "cancelled", "done"}

\* _cancel_timer: cancel() sets finished, which stops only a thread still waiting
CancelTimer(ts, k) ==
    IF k # NoTimer /\ ts[k].st = "waiting" THEN [ts EXCEPT ![k].st = "cancelled"] ELSE ts

\* mutant of StartTimer: the Timer is created and never started
StartTimer_Unstarted(ts, v) == Append(ts, [valve |-> v, st |-> "done"])

\* threading.Timer(auto_shutoff_time, _auto_shutoff_<v>) and start()
StartTimer(ts, v) == Append(ts, [valve |-> v, st |-> "waiting"])

\* mutant of EnsureOff: the opposite solenoid is left as it is
EnsureOff_Skipped(vo, o) == vo

\* GPIO.output(pin of o, GPIO.HIGH)
EnsureOff(vo, o) == [vo EXCEPT ![o] = FALSE]

\* activate_extend / activate_retract: the opposite timer is cancelled and the
\* opposite solenoid switched off, the own timer is cancelled, then the solenoid is
\* switched on with a new timer if it was off, and off if it was on
Activate(v) ==
    LET o    == Other(v)
        ts   == CancelTimer(CancelTimer(timers, valve_timer[o]), valve_timer[v])
        off  == EnsureOff(valve_on, o)
    IN /\ gpio_ready
       /\ IF ~valve_on[v]
          THEN /\ Len(timers) < MaxTimers
               /\ timers' = StartTimer(ts, v)
               /\ valve_on' = [off EXCEPT ![v] = TRUE]
               /\ valve_timer' = [valve_timer EXCEPT ![o] = NoTimer, ![v] = Len(timers) + 1]
               /\ activation' = [activation EXCEPT ![o] = NoTimer, ![v] = Len(timers) + 1]
          ELSE /\ timers' = ts
               /\ valve_on' = [off EXCEPT ![v] = FALSE]
               /\ valve_timer' = [w \in Valves |-> NoTimer]
               /\ activation' = [w \in Valves |-> NoTimer]
       /\ UNCHANGED <<gpio_ready, runner, cal, analysis>>

ActivateExtend == Activate("extend")

ActivateRetract == Activate("retract")

\* ValveController.emergency_stop: both timers cancelled and forgotten, both
\* solenoids off
ValveEmergencyStop ==
    /\ gpio_ready
    /\ timers' = CancelTimer(CancelTimer(timers, valve_timer["extend"]), valve_timer["retract"])
    /\ valve_timer' = [v \in Valves |-> NoTimer]
    /\ valve_on' = [v \in Valves |-> FALSE]
    /\ activation' = [v \in Valves |-> NoTimer]
    /\ UNCHANGED <<gpio_ready, runner, cal, analysis>>

\* ValveController.cleanup, called when main() leaves its loop: both timers
\* cancelled, both solenoids off
ValveCleanup ==
    /\ gpio_ready
    /\ timers' = CancelTimer(CancelTimer(timers, valve_timer["extend"]), valve_timer["retract"])
    /\ valve_on' = [v \in Valves |-> FALSE]
    /\ activation' = [v \in Valves |-> NoTimer]
    /\ gpio_ready' = FALSE
    /\ UNCHANGED <<valve_timer, runner, cal, analysis>>

\* Timer.run: finished.wait(interval) returns with finished unset
TimerExpires(k) ==
    /\ k \in 1..Len(timers)
    /\ timers[k].st = "waiting"
    /\ timers' = [timers EXCEPT ![k].st = "expired"]
    /\ UNCHANGED <<valve_on, valve_timer, activation, gpio_ready, runner, cal, analysis>>

\* _auto_shutoff_extend / _auto_shutoff_retract, once the thread has timer_lock
AutoShutoff(k) ==
    /\ k \in 1..Len(timers)
    /\ timers[k].st = "expired"
    /\ LET v == timers[k].valve
       IN /\ valve_on' = [valve_on EXCEPT ![v] = FALSE]
          /\ valve_timer' = [valve_timer EXCEPT ![v] = NoTimer]
          /\ activation' = [activation EXCEPT ![v] = NoTimer]
    /\ timers' = [timers EXCEPT ![k].st = "done"]
    /\ UNCHANGED <<gpio_ready, runner, cal, analysis>>

----------------------------------------------------------------------------
(* Specifications *)

\* the state after TestRunner.__init__ and MainUI.__init__
InitRunner ==
    /\ config \in Configs
    /\ current_phase = "Ready"
    /\ test_result = "NONE"
    /\ is_testing = FALSE
    /\ test_data = EmptyTestData
    /\ relay_states = [r \in Relays |-> FALSE]
    /\ cyl_state = "unknown"
    /\ ui_is_testing = FALSE
    /\ pc = [t \in Threads |-> "idle"]
    /\ readings = [t \in Threads |-> <<>>]
    /\ elapsed = [t \in Threads |-> 0]
    /\ phase_trace = <<>>
    /\ fault = "none"
    /\ result_writes = 0
    /\ stop_when = "none"
    /\ stop_in_hold = FALSE
    /\ hold_ran_out = FALSE
    /\ commands = [op \in Operations |-> 0]
    /\ cleanup_failed = FALSE
    /\ error_events = FALSE
    /\ breach = "none"
    /\ calibration_points = ConfigCalibration
    /\ cal_input = <<>>
    /\ cal_output = <<0, 1>>
    /\ transducer = Transducer
    /\ test_phase_data = <<>>
    /\ pressure_decay = <<>>
    /\ leak_rate_sccm = <<>>
    /\ test_volume_cc \in TestVolumes
    /\ fill_warning = FALSE
    /\ logged = <<>>
    /\ callback_raised = FALSE
    /\ stop_issued = {}
    /\ stop_failed = {}
    /\ valve_on = [v \in Valves |-> FALSE]
    /\ valve_timer = [v \in Valves |-> NoTimer]
    /\ timers = <<>>
    /\ activation = [v \in Valves |-> NoTimer]
    /\ gpio_ready = TRUE

\* every relay command may fail, every read may return any value or raise
Init ==
    /\ InitRunner
    /\ env = [faulty |-> Relays, reads |-> Reads, callback |-> TRUE, logging |-> FALSE,
            raising |-> FALSE]
    /\ test_volume_cc = DefaultVolume

RunStep(t) ==
    \/ RunTestBegin(t)
    \/ ExtendBegin(t)
    \/ ExtendHoldDone(t)
    \/ FillBegin(t)
    \/ FillHoldDone(t)
    \/ StabilizeBegin(t)
    \/ StabilizeIter(t)
    \/ StabilizeSleepDone(t)
    \/ Isolate(t)
    \/ TestBegin(t)
    \/ TestIter(t)
    \/ TestSleepDone(t)
    \/ EvaluatePhase(t)
    \/ ExhaustBegin(t)
    \/ ExhaustHoldDone(t)
    \/ RetractBegin(t)
    \/ RetractHoldDone(t)
    \/ RunTestFinish(t)

\* runs are started from the MainUI button only
Next ==
    \/ OnStartTest
    \/ FinishTest
    \/ RunStep(Worker)
    \/ Close

Spec == Init /\ [][Next]_vars

\* a second thread also calls run_test directly; healthy relays, a steady reading,
\* no phase_callback
InitTwo ==
    /\ InitRunner
    /\ env = [faulty |-> {}, reads |-> {1}, callback |-> FALSE, logging |-> FALSE,
            raising |-> FALSE]
    /\ config.test_duration = 10
    /\ test_volume_cc = DefaultVolume

NextTwo ==
    \/ OnStartTest
    \/ FinishTest
    \/ RunStep(Worker)
    \/ DirectRunTest
    \/ DirectReturn
    \/ RunStep(Caller)

SpecTwo == InitTwo /\ [][NextTwo]_vars

\* the PressureCalibration object on its own: points are added and loaded, currents
\* are converted
InitCal ==
    /\ InitRunner
    /\ env = [faulty |-> {}, reads |-> {1}, callback |-> FALSE, logging |-> FALSE,
            raising |-> FALSE]
    /\ config.test_duration = 10
    /\ test_volume_cc = DefaultVolume

NextCal ==
    \/ AddCalibrationPoint
    \/ CalibrateFromKnownPressure
    \/ LoadCalibration
    \/ CurrentToPressure

SpecCal == InitCal /\ [][NextCal]_vars

\* the leak analysis on its own: samples are collected, their decay and the leak
\* rate are calculated
InitDecay ==
    /\ InitRunner
    /\ env = [faulty |-> {}, reads |-> {1}, callback |-> FALSE, logging |-> FALSE,
            raising |-> FALSE]
    /\ config.test_duration = 10

NextDecay ==
    \/ AddTestPhaseData
    \/ DecayOfTestPhase
    \/ LeakRateOfDecay
    \/ ResetTestPhaseData

SpecDecay == InitDecay /\ [][NextDecay]_vars

\* the ValveController of src/test.py on its own: the commands of the input loop in
\* any order, and the Timer threads at their own pace
InitValve ==
    /\ InitRunner
    /\ env = [faulty |-> {}, reads |-> {1}, callback |-> FALSE, logging |-> FALSE,
            raising |-> FALSE]
    /\ config.test_duration = 10
    /\ test_volume_cc = DefaultVolume

NextValve ==
    \/ ActivateExtend
    \/ ActivateRetract
    \/ ValveEmergencyStop
    \/ ValveCleanup
    \/ \E k \in TimerIds : TimerExpires(k)
    \/ \E k \in TimerIds : AutoShutoff(k)

SpecValve == InitValve /\ [][NextValve]_vars

\* an exception may escape wherever a phase is entered; data logging enabled
InitEscape ==
    /\ InitRunner
    /\ env = [faulty |-> Relays, reads |-> {1}, callback |-> TRUE, logging |-> TRUE,
            raising |-> TRUE]
    /\ config.test_duration = 10
    /\ test_volume_cc = DefaultVolume

NextEscape ==
    \/ OnStartTest
    \/ FinishTest
    \/ RunStep(Worker)
    \/ RunTestRaises(Worker)

SpecEscape == InitEscape /\ [][NextEscape]_vars

\* as SpecEscape with every outcome of a pressure read and without data logging,
\* and a run_test that is scheduled until it returns: every actuator and sensor call
\* returns, every sleep ends
InitLive ==
    /\ InitRunner
    /\ env = [faulty |-> Relays, reads |-> Reads, callback |-> TRUE, logging |-> FALSE,
            raising |-> FALSE]
    /\ config.test_duration = 10
    /\ test_volume_cc = DefaultVolume

SpecLive ==
    /\ InitLive
    /\ [][NextEscape]_vars
    /\ WF_vars(RunStep(Worker) \/ RunTestRaises(Worker))

\* data logging enabled (the default of TestRunner.__init__), nobody calls close()
InitLog ==
    /\ InitRunner
    /\ env = [faulty |-> Relays, reads |-> Reads, callback |-> TRUE, logging |-> TRUE,
            raising |-> FALSE]
    /\ config.test_duration = 10
    /\ test_volume_cc = DefaultVolume

NextLog ==
    \/ OnStartTest
    \/ FinishTest
    \/ RunStep(Worker)

SpecLog == InitLog /\ [][NextLog]_vars

TypeOK ==
    /\ config \in Configs
    /\ current_phase \in {PhaseOrder[i] : i \in 1..Len(PhaseOrder)}
    /\ test_result \in Results
    /\ is_testing \in BOOLEAN
    /\ relay_states \in [Relays -> BOOLEAN]
    /\ cyl_state \in {"unknown", "moving", "extended", "retracted", "stopped"}
    /\ pc \in [Threads -> PcStates]
    /\ commands \in [Operations -> 0..2]
    /\ cleanup_failed \in BOOLEAN
    /\ error_events \in BOOLEAN
    /\ breach \in {"none"} \cup {PhaseOrder[i] : i \in 1..Len(PhaseOrder)}
    /\ fault \in {"none", "actuator", "safety", "read", "exception", "insufficient", "escaped",
                "callback"}
    /\ stop_when \in {"none", "before_verdict", "after_verdict"}
    /\ result_writes \in 0..3
    /\ calibration_points \in UNION {[1..n -> Currents \X Pressures] : n \in 0..MaxPoints}
    /\ cal_input \in {<<>>} \cup {<<c>> : c \in Currents}
    /\ cal_output \in Int \X (Nat \ {0})
    /\ transducer \in Transducers
    /\ test_phase_data \in UNION {[1..n -> Times \X Pressures] : n \in 0..MaxSamples}
    /\ pressure_decay = <<>>
         \/ (Len(pressure_decay) = 1 /\ pressure_decay[1] \in Int \X (Nat \ {0}))
    /\ leak_rate_sccm = <<>>
         \/ (Len(leak_rate_sccm) = 1 /\ leak_rate_sccm[1] \in Nat \X (Nat \ {0}))
    /\ test_volume_cc \in TestVolumes
    /\ fill_warning \in BOOLEAN
    /\ logged \in {<<>>} \cup {<<r>> : r \in Results}
    /\ callback_raised \in BOOLEAN
    /\ stop_issued \in SUBSET Relays
    /\ stop_failed \in SUBSET Relays
    /\ valve_on \in [Valves -> BOOLEAN]
    /\ valve_timer \in [Valves -> TimerIds \cup {NoTimer}]
    /\ timers \in UNION {[1..n -> [valve : Valves, st : TimerStates]] : n \in 0..MaxTimers}
    /\ activation \in [Valves -> TimerIds \cup {NoTimer}]
    /\ gpio_ready \in BOOLEAN

----------------------------------------------------------------------------
(* Properties *)

InTrace(p) == \E i \in 1..Len(phase_trace) : phase_trace[i] = p

Before(p, q) ==
    \E i, j \in 1..Len(phase_trace) : i < j /\ phase_trace[i] = p /\ phase_trace[j] = q

\* the phases handed to the callback during the current run
Reported == IF phase_trace = <<>> THEN <<>> ELSE Tail(phase_trace)

AllOff(rs) == \A r \in Relays : ~rs[r]

C3_VerdictHasNoUnsafeSample ==
    test_result \in {"PASS", "FAIL"} =>
        \A i \in 1..Len(test_data.pressure_readings) :
            test_data.pressure_readings[i][2] <= config.max_pressure

\* C4: a run that was stopped by an emergency stop before its verdict ends ERROR.
C4_StopForcesError ==
    (stop_when = "before_verdict" /\ pc[Worker] = "returned") => test_result = "ERROR"

\* C5: a hold during which emergency stop was requested never runs to its end.
C5_StoppedHoldIsCutShort == ~hold_ran_out

\* C6: from every reachable actuator state, and whichever relay commands fail in
\* both stops, a second emergency stop leaves what the first one left; when no
\* command fails that is all four relays off and the cylinders "stopped".
C6_EmergencyStopIdempotent ==
    \A f \in StopFaults(relay_states) :
        LET once  == EmergencyStop([relays |-> relay_states, cyl |-> cyl_state], f)
            twice == EmergencyStop(once, f)
        IN /\ twice = once
           /\ f = {} => AllOff(once.relays) /\ once.cyl = "stopped"

\* the state close() leaves when it stops a run inside the fill hold
C6_Witness ==
    /\ stop_in_hold
    /\ pc[Worker] = "fill_hold"
    /\ AllOff(relay_states)
    /\ cyl_state = "stopped"

\* C7: at most one thread is inside run_test at any time.
C7_SingleActiveRun == Cardinality({t \in Threads : pc[t] \in ActivePcs}) <= 1

C9_EvaluateByEndpoints ==
    test_data.evaluated =>
        LET rds  == test_data.pressure_readings
            n    == Len(rds)
            drop == rds[1][2] - rds[n][2]
            mlr  == config.max_leak_rate
        IN /\ n >= 2
           /\ rds[n][1] > 0
           /\ test_data.start_pressure = rds[1][2]
           /\ test_data.end_pressure = rds[n][2]
           /\ test_data.pressure_drop = drop
           /\ test_data.leak_rate[1] * rds[n][1]
                = drop * TicksPerSecond * test_data.leak_rate[2]
           /\ test_result \in {"PASS", "FAIL"}
           /\ test_result = "PASS" <=> drop * TicksPerSecond * mlr[2] <= mlr[1] * rds[n][1]

\* a leak rate exactly at the limit passes
C9_Witness ==
    /\ test_data.evaluated
    /\ test_result = "PASS"
    /\ test_data.pressure_drop > 0
    /\ FracLeq(config.max_leak_rate, test_data.leak_rate)

\* C10: when Evaluating starts with fewer than 2 samples the result is ERROR, and the
\* run still goes through Exhausting and Retracting cylinders.
C10_InsufficientDataIsError ==
    /\ fault = "insufficient" => (test_result = "ERROR" /\ ~test_data.evaluated)
    /\ (pc[Worker] = "returned" /\ InTrace("Evaluating")
          /\ Len(test_data.pressure_readings) < 2)
         => /\ test_result = "ERROR"
            /\ Before("Exhausting", "Retracting cylinders")

C10_Witness ==
    /\ pc[Worker] = "returned"
    /\ fault = "insufficient"
    /\ Len(test_data.pressure_readings) = 1
    /\ test_result = "ERROR"

\* the last pre-cleanup phase the current run entered
LastPreCleanup ==
    LET idx == {i \in 1..Len(Reported) :
                   PhaseIndex(Reported[i]) < PhaseIndex("Exhausting")}
    IN IF idx = {} THEN "none"
       ELSE Reported[CHOOSE i \in idx : \A j \in idx : j <= i]

\* C11: once an actuator call of Extending cylinders, Filling DUT or Isolating has
\* reported failure, the result is ERROR, the run is past its pre-cleanup phases,
\* and the phase that failed is the last pre-cleanup phase it entered.
C11_ActuatorFailureShortCircuits ==
    fault = "actuator" =>
        /\ test_result = "ERROR"
        /\ pc[Worker] \notin PreVerdictPcs
        /\ LastPreCleanup \in {"Extending cylinders", "Filling DUT", "Isolating"}
        /\ ~InTrace("Testing") /\ ~InTrace("Evaluating")
        /\ LastPreCleanup = "Extending cylinders" => ~InTrace("Filling DUT")
        /\ LastPreCleanup = "Filling DUT" => ~InTrace("Stabilizing")

\* the fill valve failed to close after the fill hold: no Stabilizing, cleanup, ERROR
C11_Witness ==
    /\ pc[Worker] = "returned"
    /\ fault = "actuator"
    /\ LastPreCleanup = "Filling DUT"
    /\ relay_states["fill"]
    /\ test_result = "ERROR"

\* C12: no step of Exhausting or Retracting cylinders changes test_result, whether
\* its actuator call succeeds or fails; a failed exhaust still goes on to Retracting
\* cylinders, a failed retract to the end of the run, and a PASS or FAIL is what
\* the run returns.
C12_CleanupFailureKeepsResult ==
    [][ /\ pc[Worker] \in {"exhaust", "exhaust_hold", "retract", "retract_hold"}
            => test_result' = test_result
        /\ pc[Worker] \in {"exhaust", "exhaust_hold"}
            => pc'[Worker] \in {"exhaust", "exhaust_hold", "retract"}
        /\ pc[Worker] \in {"retract", "retract_hold"}
            => pc'[Worker] \in {"retract", "retract_hold", "finish"}
        /\ (pc[Worker] = "finish" /\ test_result \in {"PASS", "FAIL"})
            => test_result' = test_result
      ]_vars

\* a run that passed, whose exhaust valve then failed to close and whose retract
\* solenoid failed to energize, with no stop from outside
C12_Witness ==
    /\ pc[Worker] = "returned"
    /\ stop_when = "none"
    /\ test_result = "PASS"
    /\ relay_states["exhaust"]
    /\ cyl_state = "unknown"
    /\ current_phase = "Complete"

\* C15: with a TestConfig that validate_config reports an error for, run_test never
\* begins a sequence: no phase is entered and no relay is commanded on.
C15_InvalidConfigNeverRuns ==
    ValidateConfigErrors(config) =>
        /\ ~is_testing
        /\ Reported = <<>>
        /\ AllOff(relay_states)

\* C17: within one run each actuator operation (extend, fill, close-all, exhaust,
\* retract) is called at most once, whether or not it failed.
C17_NoRetries == \A op \in Operations : commands[op] <= 1

\* a run whose fill failed and whose exhaust and retract failed after it: each of
\* the operations it reached was called once
C17_Witness ==
    /\ pc[Worker] = "returned"
    /\ fault = "actuator"
    /\ cleanup_failed
    /\ cyl_state = "unknown"
    /\ commands = [op \in Operations |->
                     IF op \in {"extend", "fill", "exhaust", "retract"} THEN 1 ELSE 0]

\* C14: once a pressure above max_pressure has been read in a phase, the run has
\* left its pre-cleanup phases with result ERROR, and a run aborted for safety has
\* performed an emergency stop.
C14_BreachAbortsWithStop ==
    /\ breach # "none" => (pc[Worker] \notin PreVerdictPcs /\ test_result = "ERROR")
    /\ fault = "safety" => stop_when # "none"

\* C16: a run that ends after a fault (a failed actuator call, a failed safety
\* check, a failed cleanup phase) has told its observers: the result is ERROR or an
\* ERROR system event was logged.
C16_NoFaultSwallowed ==
    (pc[Worker] = "returned" /\ (fault # "none" \/ cleanup_failed))
        => (test_result = "ERROR" \/ error_events)

\* C13: a run in which an exception escaped a phase ends with result ERROR after
\* going through Exhausting, Retracting cylinders and Complete.
C13_EscapeGoesToCleanup ==
    (fault = "escaped" /\ pc[Worker] = "returned")
        => /\ test_result = "ERROR"
           /\ Before("Exhausting", "Retracting cylinders")
           /\ current_phase = "Complete"

----------------------------------------------------------------------------
(* Calibration properties, over the conversion last made with the present points *)

Converted == cal_input # <<>>

Sorted == SortByCurrent(calibration_points)

LowestCurrent == Sorted[1][1]

HighestCurrent == Sorted[Len(Sorted)][1]

PointsAt(current_ma) ==
    {i \in 1..Len(calibration_points) : calibration_points[i][1] = current_ma}

\* the points were not added in order of current
AddedOutOfOrder ==
    \E i, j \in 1..Len(calibration_points) :
        i < j /\ calibration_points[i][1] > calibration_points[j][1]

ValidAscending ==
    /\ Len(Sorted) >= 2
    /\ \A i \in 1..(Len(Sorted) - 1) :
           /\ Sorted[i][1] < Sorted[i + 1][1]
           /\ Sorted[i][2] <= Sorted[i + 1][2]

\* C19: for a point set of two or more points whose currents strictly increase and
\* whose pressures do not decrease, the conversion is non-decreasing: no larger
\* current converts to a smaller pressure, inside an interval, across calibration
\* points and into the clamped regions (in exact arithmetic).
C19_Monotonic ==
    (Converted /\ ValidAscending) =>
        \A c2 \in Currents :
            cal_input[1] <= c2 =>
                FracLeq(cal_output, CurrentToPressureMultipoint(calibration_points, c2))

\* a rising three-point set, a current inside the first interval converted to a
\* pressure strictly between the pressures of its end points
C19_Witness ==
    /\ Converted
    /\ ValidAscending
    /\ Len(Sorted) = 3
    /\ Sorted[1][1] < cal_input[1] /\ cal_input[1] < Sorted[2][1]
    /\ ~FracLeq(cal_output, <<Sorted[1][2], 1>>)
    /\ ~FracLeq(<<Sorted[2][2], 1>>, cal_output)

\* v lies on the straight line through p1 and p2 at current_ma
OnLine(p1, p2, current_ma, v) ==
    (v[1] - p1[2] * v[2]) * (p2[1] - p1[1]) = (p2[2] - p1[2]) * (current_ma - p1[1]) * v[2]

\* C20: with two or more points, a current strictly between two points adjacent in
\* the sorted list converts to the value on the straight line joining them, a
\* current at which a calibration point lies converts to the pressure of a point
\* with that current, and with the points (4, 0) and (20, 100) the current 12
\* converts to 50 (in exact arithmetic).
C20_InterpolationExact ==
    /\ (Converted /\ Len(calibration_points) >= 2) =>
           /\ \A i \in 1..(Len(Sorted) - 1) :
                  (Sorted[i][1] < cal_input[1] /\ cal_input[1] < Sorted[i + 1][1])
                      => OnLine(Sorted[i], Sorted[i + 1], cal_input[1], cal_output)
           /\ PointsAt(cal_input[1]) # {} =>
                  \E i \in PointsAt(cal_input[1]) :
                      FracEq(cal_output, <<calibration_points[i][2], 1>>)
    /\ FracEq(CurrentToPressureMultipoint(<< <<4, 0>>, <<20, 100>> >>, 12), <<50, 1>>)

\* the points (1, 0) and (3, 2) in the set, added out of order, and the current 2
\* between them converted to the pressure 1
C20_Witness ==
    /\ Converted
    /\ AddedOutOfOrder
    /\ Sorted = << <<1, 0>>, <<3, 2>> >>
    /\ cal_input = <<2>>
    /\ FracEq(cal_output, <<1, 1>>)

\* C21 (as the code has it): with fewer than two calibration points the conversion
\* is the straight line through (min_current_ma, min_pressure_psi) and
\* (max_current_ma, max_pressure_psi), not clamped; only when the two currents of
\* the range coincide is it min_pressure_psi for every current.
C21_FallbackIsLinear ==
    (Converted /\ Len(calibration_points) < 2) =>
        IF transducer.max_current_ma = transducer.min_current_ma
        THEN FracEq(cal_output, <<transducer.min_pressure_psi, 1>>)
        ELSE OnLine(<<transducer.min_current_ma, transducer.min_pressure_psi>>,
                    <<transducer.max_current_ma, transducer.max_pressure_psi>>,
                    cal_input[1], cal_output)

\* one point only, a current above the lower bound of a proper range, and a
\* pressure above the lower bound's pressure returned
C21_Witness ==
    /\ Converted
    /\ Len(calibration_points) = 1
    /\ transducer.max_current_ma > transducer.min_current_ma
    /\ cal_input[1] > transducer.min_current_ma
    /\ ~FracLeq(cal_output, <<transducer.min_pressure_psi, 1>>)

\* C21 (as stated): with fewer than two calibration points the conversion returns
\* the lower bound's pressure for every current.
C21_FallbackIsConstant ==
    (Converted /\ Len(calibration_points) < 2) =>
        FracEq(cal_output, <<transducer.min_pressure_psi, 1>>)

\* C22: the calibration point set has at least two points and, once sorted, strictly
\* increasing currents: no two points share a current.
C22_PointSetValid ==
    /\ Len(calibration_points) >= 2
    /\ \A i \in 1..(Len(Sorted) - 1) : Sorted[i][1] < Sorted[i + 1][1]

----------------------------------------------------------------------------
(* Leak analysis properties, over the values last calculated from the present samples *)

\* n * den times the residual of sample i under the line of slope num/den that
\* passes through the mean of the samples
ScaledResidual(samples, slope, i) ==
    LET n  == Len(samples)
        sx == Sum([j \in 1..n |-> samples[j][1]])
        sy == Sum([j \in 1..n |-> samples[j][2]])
    IN samples[i][2] * n * slope[2] - slope[1] * n * samples[i][1]
         - (sy * slope[2] - slope[1] * sx)

\* the normal equations of the least-squares line: the residuals sum to zero and are
\* orthogonal to the times
NormalEquations(samples, slope) ==
    /\ Sum([i \in 1..Len(samples) |-> ScaledResidual(samples, slope, i)]) = 0
    /\ Sum([i \in 1..Len(samples) |->
               samples[i][1] * ScaledResidual(samples, slope, i)]) = 0

\* no line a/2 * t + c/2 of the grid has a smaller sum of squared residuals
NoBetterLine(samples, slope) ==
    LET n    == Len(samples)
        k    == 2
        d    == n * slope[2]
        best == Sum([i \in 1..n |-> ScaledResidual(samples, slope, i)
                                      * ScaledResidual(samples, slope, i)])
    IN \A a \in (-k * MaxP)..(k * MaxP), c \in (-2 * k * MaxP)..(2 * k * MaxP) :
          LET other == Sum([i \in 1..n |->
                         (samples[i][2] * k - a * samples[i][1] - c)
                           * (samples[i][2] * k - a * samples[i][1] - c)])
          IN best * k * k <= other * d * d

\* C23: the decay of fewer than two samples is 0; of two or more samples (taken at
\* increasing times) it is the slope of the ordinary least-squares line of pressure
\* against elapsed time over all of them (in exact arithmetic); for the samples
\* (0, 1.0), (1, 0.9), (2, 0.8), here in tenths of a PSI, it is -0.1 PSI/s.
C23_LeastSquaresSlope ==
    /\ pressure_decay # <<>> =>
           IF Len(test_phase_data) < 2
           THEN pressure_decay[1] = <<0, 1>>
           ELSE /\ NormalEquations(test_phase_data, pressure_decay[1])
                /\ NoBetterLine(test_phase_data, pressure_decay[1])
    /\ FracEq(CalculatePressureDecay(<< <<0, 10>>, <<1, 9>>, <<2, 8>> >>), <<-1, 1>>)

\* three samples that are not on one line, with a slope that differs from the slope
\* between the first and the last sample
C23_Witness ==
    /\ pressure_decay # <<>>
    /\ Len(test_phase_data) = 3
    /\ ~FracEq(pressure_decay[1],
               <<test_phase_data[3][2] - test_phase_data[1][2],
                 test_phase_data[3][1] - test_phase_data[1][1]>>)
    /\ pressure_decay[1][1] < 0

RECURSIVE GCD(_, _)
GCD(a, b) == IF b = 0 THEN a ELSE GCD(b, a % b)

\* a fraction with a positive denominator in lowest terms
Lowest(v) == LET g == GCD(Abs(v[1]), v[2]) IN <<v[1] \div g, v[2] \div g>>

\* C24: the leak rate is volume_cc * |slope| * 60 / 14.69, it is never negative,
\* slope and -slope give the same rate, and slope -0.1 with volume 100 gives
\* 600 / 14.69.
C24_LeakRateFormula ==
    /\ leak_rate_sccm # <<>> =>
           LET slope == pressure_decay[1]
               rate  == leak_rate_sccm[1]
           IN /\ Lowest(rate)
                    = Lowest(<<test_volume_cc * Abs(slope[1]) * 60 * 100,
                               Abs(slope[2]) * 1469>>)
              /\ rate[1] >= 0 /\ rate[2] > 0
              /\ Lowest(rate)
                    = Lowest(CalculateLeakRate(test_volume_cc, <<-slope[1], slope[2]>>))
    /\ Lowest(CalculateLeakRate(100, <<-1, 10>>)) = Lowest(<<600 * 100, 1469>>)

\* a falling pressure, and a positive leak rate calculated from it
C24_Witness ==
    /\ leak_rate_sccm # <<>>
    /\ pressure_decay[1][1] < 0
    /\ leak_rate_sccm[1][1] > 0

----------------------------------------------------------------------------
(* Further properties of the run *)

\* the series that share the first and the last sample of rds and have no or one
\* sample in between
SameEndpoints(rds) ==
    LET last == rds[Len(rds)]
    IN {<<rds[1], last>>}
         \cup {<<rds[1], <<t, p>>, last>> : t \in 0..last[1], p \in Pressures}

\* C25: when _phase_evaluate has returned, the result of the run is the result the
\* evaluation gives to every series with the same first and last sample under the
\* same configuration, whatever lies between them.
C25_EndpointsDecide ==
    (test_data.evaluated /\ pc[Worker] = "exhaust") =>
        \A alt \in SameEndpoints(test_data.pressure_readings) :
            Evaluate([test_data EXCEPT !.pressure_readings = alt], config).result
                = test_result

\* three samples whose least-squares slope is negative while first and last sample
\* are equal: the run passes
C25_Witness ==
    /\ test_data.evaluated
    /\ pc[Worker] = "exhaust"
    /\ Len(test_data.pressure_readings) >= 3
    /\ test_data.pressure_drop = 0
    /\ CalculatePressureDecay(test_data.pressure_readings)[1] < 0
    /\ test_result = "PASS"

\* the elapsed times of a series start at 0 and grow from sample to sample
Increasing(rds) ==
    rds # <<>> =>
        /\ rds[1][1] = 0
        /\ \A i \in 1..(Len(rds) - 1) : rds[i][1] < rds[i + 1][1]

\* C26: in the series a Testing phase records, and in the series it stores for the
\* evaluation, the first sample has elapsed time 0 and every later sample has a
\* greater elapsed time than the sample before it.
C26_SamplesInTimeOrder ==
    /\ \A t \in Threads : Increasing(readings[t])
    /\ Increasing(test_data.pressure_readings)

\* a stored series of three samples
C26_Witness ==
    /\ Len(test_data.pressure_readings) >= 3
    /\ test_data.pressure_readings[2][1] > 0
    /\ test_data.pressure_readings[3][1] > test_data.pressure_readings[2][1]

\* C27: a call of run_test returns, and whenever it has returned is_testing is false,
\* the result is PASS, FAIL or ERROR, and the current phase is Complete or Error.
C27_RunTestReturns ==
    /\ [](pc[Worker] = "returned" =>
             /\ ~is_testing
             /\ test_result \in {"PASS", "FAIL", "ERROR"}
             /\ current_phase \in {"Complete", "Error"})
    /\ (pc[Worker] \in ActivePcs \cup {"spawned"}) ~> (pc[Worker] = "returned")

\* a run that went through the Testing loop has returned with a verdict
C27_Witness ==
    /\ pc[Worker] = "returned"
    /\ InTrace("Testing")
    /\ test_data.evaluated
    /\ test_result \in {"PASS", "FAIL"}
    /\ current_phase = "Complete"
    /\ ~is_testing

\* C28: the extend relay and the retract relay are never both energized.
C28_OneCylinderSolenoid == ~(relay_states["extend"] /\ relay_states["retract"])

\* C29: the fill relay and the exhaust relay are never both energized.
C29_FillExhaustExclusive == ~(relay_states["fill"] /\ relay_states["exhaust"])

\* C30: while the current phase is Testing or Evaluating the fill relay and the
\* exhaust relay are both off.
C30_IsolatedWhileMeasured ==
    current_phase \in {"Testing", "Evaluating"} =>
        (~relay_states["fill"] /\ ~relay_states["exhaust"])

\* the Testing loop has recorded a second sample with both valves closed
C30_Witness ==
    /\ current_phase = "Testing"
    /\ Len(readings[Worker]) >= 2
    /\ ~relay_states["fill"] /\ ~relay_states["exhaust"]

\* C31: when run_test has returned, the fill, exhaust, extend and retract relays
\* are all off.
C31_AllOffAtReturn == pc[Worker] = "returned" => AllOff(relay_states)

\* C32: once the pressure read of a safety check has raised in Stabilizing or
\* Testing, the result is ERROR, the run is in its cleanup or past it, and it has
\* not gone on to Evaluating.
C32_FailedCheckAborts ==
    fault = "read" =>
        /\ test_result = "ERROR"
        /\ pc[Worker] \notin PreVerdictPcs
        /\ ~InTrace("Evaluating")

\* the safety check's read raised in Testing, after a sample had been recorded, and
\* the run is in Exhausting
C32_Witness ==
    /\ fault = "read"
    /\ pc[Worker] = "exhaust_hold"
    /\ InTrace("Testing")
    /\ Len(readings[Worker]) >= 2

\* C33: once the fill valve operation has succeeded with a post-fill pressure below
\* target_fill_pressure - pressure_tolerance (the warning was logged), the run is
\* about to enter Stabilizing with no result set, or has entered it.
C33_UnderfillGoesOn ==
    fill_warning =>
        IF pc[Worker] = "stabilize"
        THEN test_result = "NONE" /\ result_writes = 0 /\ fault = "none"
        ELSE InTrace("Stabilizing")

\* the underfilled run is in its Stabilizing loop, still without a result
C33_Witness ==
    /\ fill_warning
    /\ pc[Worker] = "stab_sleep"
    /\ test_result = "NONE"

\* C34: with data logging enabled, a run that has not returned has made no
\* log_test_result call, and a run that has returned has made exactly one, with the
\* result run_test returns.
C34_OneResultLogged ==
    /\ pc[Worker] \in ActivePcs => logged = <<>>
    /\ pc[Worker] = "returned" => logged = <<test_result>>

\* a run that left through the except branch after its verdict was PASS, and one
\* that ended on the normal path
C34_Witness ==
    /\ pc[Worker] = "returned"
    /\ logged = <<"ERROR">>
    /\ fault = "escaped"
    /\ test_data.evaluated

\* C35: no run is sent into the except branch by its phase callback, and a run whose
\* callback raised and that met no fault has gone through every phase, called every
\* actuator operation once and ended with the verdict of the evaluation.
C35_CallbackCannotAbort ==
    /\ fault # "callback"
    /\ (callback_raised /\ fault = "none" /\ pc[Worker] = "returned") =>
          /\ Reported = SubSeq(PhaseOrder, 2, 10)
          /\ commands = [op \in Operations |-> 1]
          /\ test_data.evaluated
          /\ test_result \in {"PASS", "FAIL"}

\* the callback raised and the run completed with a verdict
C35_Witness ==
    /\ callback_raised
    /\ fault = "none"
    /\ pc[Worker] = "returned"
    /\ test_result = "PASS"
    /\ current_phase = "Complete"

\* C36: after the _emergency_stop of the except branch, every relay has been
\* commanded off, and every relay whose off command did not fail is off.
C36_StopReachesEveryRelay ==
    (pc[Worker] = "returned" /\ stop_when # "none") =>
        /\ stop_issued = Relays
        /\ \A r \in Relays \ stop_failed : ~relay_states[r]

\* an emergency stop in which the off command to the fill relay failed and the
\* exhaust relay, on at the time, was switched off
C36_Witness ==
    /\ pc[Worker] = "returned"
    /\ stop_when # "none"
    /\ "fill" \in stop_failed
    /\ relay_states["fill"]
    /\ stop_issued = Relays
    /\ ~relay_states["extend"]

\* C37: the extend and the retract solenoid of the ValveController are never on
\* together.
C37_OneValveAtATime == ~(valve_on["extend"] /\ valve_on["retract"])

\* retract was activated while extend was on with its timer running
C37_Witness ==
    /\ valve_on["retract"]
    /\ Len(timers) >= 2
    /\ timers[1].valve = "extend"
    /\ timers[1].st = "cancelled"
    /\ activation["retract"] = 2

\* C38: a solenoid that is on has a Timer of its own that is still going to run its
\* shutoff: one that is waiting, or one that has expired and not yet run.
C38_OnHasPendingTimer ==
    \A v \in Valves :
        valve_on[v] => \E k \in 1..Len(timers) :
                          timers[k].valve = v /\ timers[k].st \in {"waiting", "expired"}

\* the extend solenoid is on and the timer of its activation has expired
C38_Witness ==
    /\ valve_on["extend"]
    /\ activation["extend"] # NoTimer
    /\ timers[activation["extend"]].st = "expired"

\* C39: a Timer callback switches a solenoid off only if it is the Timer that was
\* started when the solenoid was last switched on.
C39_OnlyOwnTimerShutsOff ==
    [][\A k \in 1..Len(timers) :
          (timers[k].st = "expired" /\ timers'[k].st = "done"
             /\ valve_on[timers[k].valve] /\ ~valve_on'[timers[k].valve])
          => activation[timers[k].valve] = k]_vars

====
